---- MODULE Spec2Model ----
(***************************************************************************)
(* Model of the Argo -> Cordra connector.                                  *)
(*   src/app/cordra.py  create_dataset_from_workflow_artifacts (the saga)  *)
(*   src/app/argo.py    _recursive_artifact_reader (the crawler)           *)
(*                                                                         *)
(* Strings are sequences of tokens.  "/", " " and the double quote "q" are *)
(* single characters; every other token ("Exports", "ModGP", "n", ...)     *)
(* stands for a run of characters containing none of them, so split,       *)
(* substring search and slicing act on the sequence as the Python code     *)
(* acts on the text.                                                       *)
(***************************************************************************)
EXTENDS Integers, Sequences, FiniteSets, TLC

\* ------------------------------------------------------------------ bounds
\* the crawler yields at most MaxItems items in one run
MaxItems == 2
\* artifact_reader is given at most MaxArtifacts artifacts
MaxArtifacts == 2

\* ------------------------------------------------------------- text helpers
Slash == "/"

\* str.split(sep): the pieces between the separators (always at least one)
RECURSIVE SplitFrom(_, _, _, _)
SplitFrom(s, sep, i, cur) ==
    IF i > Len(s) THEN <<cur>>
    ELSE IF s[i] = sep THEN <<cur>> \o SplitFrom(s, sep, i + 1, <<>>)
    ELSE SplitFrom(s, sep, i + 1, Append(cur, s[i]))

Split(s) == SplitFrom(s, Slash, 1, <<>>)

\* `sub in s` on strings
Contains(sub, s) ==
    \E i \in 1..(Len(s) - Len(sub) + 1) : SubSeq(s, i, i + Len(sub) - 1) = sub

\* the text "Exports/ModGP" of line 123
Marker == <<"Exports", "/", "ModGP">>

\* ------------------------------------------------------------ saga inputs
\* content paths the crawler can yield (node id first, then the declared path)
PathGroupA == <<"n", "/", "d", "/", "Exports", "/", "ModGP", "/", "g1", "/", "s1", "/", "f">>
PathGroupB == <<"n", "/", "d", "/", "Exports", "/", "ModGP", "/", "g2", "/", "s1", "/", "f">>
PathShallow == <<"n", "/", "Exports", "/", "ModGP", "/", "g1", "/", "s1", "/", "f">>
PathPlain == <<"n", "/", "d", "/", "out">>

Paths == {PathGroupA, PathGroupB, PathShallow, PathPlain}

\* the numeric suffixes of the argo-connector/submitterId<number> annotations
\* of a run, in the order the annotation dict holds them: none, one whose
\* number is not 1, and two with number 1 coming second
AnnotationLists == {<<>>, <<2>>, <<2, 1>>}

\* spec.arguments.parameters of the reconstructed workflow: does each
\* parameter carry a "value"
ParameterLists == {<<>>, <<[value |-> FALSE]>>, <<[value |-> TRUE]>>}

\* file_max_size: 0 switches the limit off
FileMaxSizes == {0, 1}

\* sizes of staged artifacts, in bytes
StagedSizes == {1, 2}

VARIABLES
    pc,                    \* position of the Builder in its code
    skip_content,          \* argument skip_content
    file_max_size,         \* argument file_max_size
    created_ids,           \* dict id -> kind, in insertion order
    created_files,         \* dict id -> contentUrl, in insertion order
    create_action_author,  \* id of the Person with number "1", 0 for None
    nested_datasets_items, \* dict name -> [ids], in insertion order
    nestIdx,               \* position of the loop of line 140
    computer_language_obj, \* ids returned by the creates, 0 before
    wfl_obj,
    action,
    dataset,
    bpList,                \* the id list of line 256
    bpIdx,                 \* position of the loop of line 256
    delIdx,                \* position of the loop of line 270
    err,                   \* the exception caught at line 268, <<>> for none
    raised,                \* the exception that left the function, <<>> for none
    annotations,           \* submitter numbers of the run's annotations
    authorIdx,             \* position of the loop of line 42
    wfl_parameters,        \* parameters of the reconstructed workflow
    paramIdx,              \* position of the loop of line 151
    items,                 \* items the crawler has yielded so far
    repo,                  \* the repository: id -> object
    clock,                 \* the repository's clock
    nextId,                \* next id the repository assigns
    calls,                 \* every call issued to the repository, in order
    artifact_list,         \* argument of artifact_reader, with what the server holds
    artIdx,                \* position of the loop of line 141
    stack,                 \* the active calls of _recursive_artifact_reader
    requests,              \* every HTTP request the crawler made, in order
    yielded,               \* the items the generator has yielded, in order
    crawl,                 \* "running", "done" or "raised"
    wfl,                   \* the run document handed to a function of argo.py
    fpc,                   \* position of that function in its code
    node_name,             \* position of the loop over wfl["status"]["nodes"]
    artifact,              \* position of the loop of line 54 of argo.py
    artifacts_list,        \* the list parse_artifact_list builds
    spec,                  \* the dict spec of reconstruct_workflow_from_workflowinfo
    start_time,            \* the times of lines 211-221 of cordra.py, 0 for None
    end_time,
    action_properties      \* startTime and endTime of the dict of line 223

vars == <<pc, skip_content, file_max_size, created_ids, created_files,
          create_action_author, nested_datasets_items, nestIdx,
          computer_language_obj, wfl_obj, action, dataset, bpList, bpIdx, delIdx,
          err, raised, annotations, authorIdx, wfl_parameters, paramIdx, items, repo, clock, nextId, calls,
          artifact_list, artIdx, stack, requests, yielded, crawl,
          wfl, fpc, node_name, artifact, artifacts_list, spec, start_time, end_time,
          action_properties>>

docVars == <<wfl, fpc, node_name, artifact, artifacts_list, spec, start_time, end_time,
             action_properties>>

crawlVars == <<artifact_list, artIdx, stack, requests, yielded, crawl>>

\* what no step of the Builder changes
cfgVars == <<skip_content, file_max_size, crawlVars, docVars>>
regVars == <<created_ids, created_files>>
objVars == <<create_action_author, computer_language_obj, wfl_obj, action, dataset>>
loopVars == <<nested_datasets_items, nestIdx, bpList, bpIdx, delIdx>>
excVars == <<err, raised>>
inVars == <<annotations, authorIdx, wfl_parameters, paramIdx, items>>
argVars == <<annotations, wfl_parameters>>
repoVars == <<repo, clock, nextId>>

\* ---------------------------------------------------- dictionaries as lists
\* keys of a dict whose entries are [id, kind], in insertion order, kept by kind
RECURSIVE IdsOfKind(_, _)
IdsOfKind(reg, kinds) ==
    IF reg = <<>> THEN <<>>
    ELSE (IF Head(reg).kind \in kinds THEN <<Head(reg).id>> ELSE <<>>)
         \o IdsOfKind(Tail(reg), kinds)

Range(s) == {s[i] : i \in 1..Len(s)}

RegistryIds(reg) == {reg[i].id : i \in 1..Len(reg)}

\* ------------------------------------------------------- grouping (123-147)
\* line 123: is_modGP
IsModGP(files) == \E i \in 1..Len(files) : Contains(Marker, files[i].path)

\* line 134: the test that puts a file into a nested dataset
InSpeciesFolder(sp) ==
    Len(sp) > 6 /\ sp[3] = <<"Exports">> /\ sp[4] = <<"ModGP">>

\* line 137: f"{genus} {species}"
DatasetName(sp) == sp[5] \o <<" ">> \o sp[6]

\* line 138: nested_datasets_items[name] = nested_datasets_items.get(name, []) + [id]
AddItem(groups, name, id) ==
    IF \E k \in 1..Len(groups) : groups[k].name = name
    THEN [k \in 1..Len(groups) |->
            IF groups[k].name = name
            THEN [groups[k] EXCEPT !.items = Append(@, id)]
            ELSE groups[k]]
    ELSE Append(groups, [name |-> name, items |-> <<id>>])

\* lines 131-138
RECURSIVE GroupFiles(_, _)
GroupFiles(files, groups) ==
    IF files = <<>> THEN groups
    ELSE LET sp == Split(Head(files).path)
         IN GroupFiles(Tail(files),
                       IF InSpeciesFolder(sp)
                       THEN AddItem(groups, DatasetName(sp), Head(files).id)
                       ELSE groups)

AbsorbedIds(groups) ==
    UNION {Range(groups[k].items) : k \in 1..Len(groups)}

\* lines 145-147: del created_ids[id] for every id of every nested dataset
RewriteCreatedIds(reg, groups) ==
    SelectSeq(reg, LAMBDA e : e.id \notin AbsorbedIds(groups))

\* ------------------------------------------------------- payloads (223-256)
\* line 224
ActionResult(reg) == IdsOfKind(reg, {"FileObject", "Dataset"})

\* line 243 without "Workflow" in the list of kinds
RootHasPartFilesOnly(reg) == IdsOfKind(reg, {"FileObject", "Dataset"})

\* line 243
RootHasPart(reg) == IdsOfKind(reg, {"FileObject", "Workflow", "Dataset"})

\* line 256
BackpatchList(reg, root) ==
    SelectSeq(IdsOfKind(reg, {"FileObject", "Dataset"}), LAMBDA id : id # root)

\* line 82: the size test that skips an artifact
TooLarge(max, size) == max > 0 /\ size > max

\* a Files step without the continue of line 84
StepAfterStagingPost(max, size) == "post"

\* lines 82-84: continue with the next item, or go on to line 86
StepAfterStaging(max, size) == IF TooLarge(max, size) THEN "files" ELSE "post"

\* lines 66-95 with the download loop of line 69 left out
StreamNeverRead(skip) == "closed_unread"

\* what is left of the stream when the staging block (66-95) is done with it
StreamAfterStaging(skip) == IF skip THEN "closed_unread" ELSE "read"

\* ------------------------------------------------------------- repository
NewObject(kind, hasPart, contentUrl, agent) ==
    [kind |-> kind, hasPart |-> hasPart, isPartOf |-> <<>>,
     contentUrl |-> contentUrl, agent |-> agent, modified |-> clock + 1]

\* a record of one call: `at` is the place in the Builder that issued it
Call(op, kind, id, ok, hasPart) ==
    [op |-> op, kind |-> kind, id |-> id, ok |-> ok, hasPart |-> hasPart, at |-> pc]

\* a create call that succeeds: the repository assigns nextId
CreateOk(kind, hasPart, contentUrl, agent) ==
    /\ repo' = repo @@ (nextId :> NewObject(kind, hasPart, contentUrl, agent))
    /\ clock' = clock + 1
    /\ nextId' = nextId + 1
    /\ calls' = Append(calls, Call("create", kind, nextId, TRUE, hasPart))

\* any call that raises: nothing changes in the repository
CallFails(op, kind, id, hasPart) ==
    /\ calls' = Append(calls, Call(op, kind, id, FALSE, hasPart))
    /\ UNCHANGED repoVars

\* a handler that swallows the exception and goes on with the root Dataset
ExceptStepResume(e) == "root"

\* line 268: except Exception as e
ExceptStep(e) == "rollback"

\* an exception inside the try block: control goes to line 268
Except(e) ==
    /\ pc' = ExceptStep(e)
    /\ err' = e
    /\ delIdx' = 1
    /\ UNCHANGED <<raised, regVars, objVars, nested_datasets_items, nestIdx, bpList, bpIdx>>

Register(id, kind) == Append(created_ids, [id |-> id, kind |-> kind])

\* no function of argo.py is at work on a run document
DocIdle ==
    /\ wfl = <<>>
    /\ fpc = "idle"
    /\ node_name = 1
    /\ artifact = 1
    /\ artifacts_list = <<>>
    /\ spec = <<>>
    /\ start_time = 0
    /\ end_time = 0
    /\ action_properties = <<>>

\* the crawler before artifact_reader is called
CrawlIdle ==
    /\ artifact_list = <<>>
    /\ artIdx = 1
    /\ stack = <<>>
    /\ requests = <<>>
    /\ yielded = <<>>
    /\ crawl = "done"

\* lines 27-41: the Builder is called
BuilderInit ==
    /\ pc = "authors"
    /\ skip_content \in BOOLEAN
    /\ file_max_size \in FileMaxSizes
    /\ created_ids = <<>>
    /\ created_files = <<>>
    /\ create_action_author = 0
    /\ nested_datasets_items = <<>>
    /\ nestIdx = 1
    /\ computer_language_obj = 0
    /\ wfl_obj = 0
    /\ action = 0
    /\ dataset = 0
    /\ bpList = <<>>
    /\ bpIdx = 1
    /\ delIdx = 1
    /\ err = <<>>
    /\ raised = <<>>
    /\ annotations \in AnnotationLists
    /\ authorIdx = 1
    /\ wfl_parameters \in ParameterLists
    /\ paramIdx = 1
    /\ items = <<>>
    /\ repo = <<>>
    /\ clock = 0
    /\ nextId = 1
    /\ calls = <<>>

Init ==
    /\ CrawlIdle
    /\ DocIdle
    /\ BuilderInit

\* ------------------------------------------------------------ 1. authors
\* an Authors step that designates the Person of the annotation matched first
DesignatedAuthorFirst(number, author, designated) ==
    IF designated = 0 THEN author ELSE designated

\* lines 51-52: if number == "1": create_action_author = author
DesignatedAuthor(number, author, designated) ==
    IF number = 1 THEN author ELSE designated

\* lines 42-53, one annotation argo-connector/submitterId<n>
CreatePerson ==
    /\ pc = "authors"
    /\ authorIdx <= Len(annotations)
    /\ LET n == annotations[authorIdx]
       IN
        /\ authorIdx' = authorIdx + 1
        /\ \/ /\ CreateOk("Person", <<>>, <<>>, 0)
              /\ create_action_author' = DesignatedAuthor(n, nextId, create_action_author)
              /\ created_ids' = Register(nextId, "Person")
              /\ UNCHANGED <<pc, created_files, computer_language_obj, wfl_obj, action,
                             dataset, loopVars, excVars>>
           \/ /\ CallFails("create", "Person", 0, <<>>)
              /\ Except(<<"create", "Person">>)
    /\ UNCHANGED <<cfgVars, argVars, paramIdx, items>>

\* the loop of line 42 ends
AuthorsDone ==
    /\ pc = "authors"
    /\ authorIdx > Len(annotations)
    /\ pc' = "files"
    /\ UNCHANGED <<cfgVars, regVars, objVars, loopVars, excVars, inVars, repoVars, calls>>

\* ------------------------------------------------------------- 2. files
CurItem == items[Len(items)]

SetCurItem(it) == [items EXCEPT ![Len(items)] = it]

\* lines 57, 63: an item as the generator yields it, its stream open, and the
\* temporary file opened for it
NewItem(p) ==
    [path |-> p, stream |-> "open", skipped |-> FALSE, file |-> 0,
     tmp_file |-> "open", upload |-> "none"]

\* line 57: the generator yields the next (file_name, content_iterator)
FetchItem ==
    /\ pc = "files"
    /\ Len(items) < MaxItems
    /\ \E p \in Paths : items' = Append(items, NewItem(p))
    /\ pc' = "stage"
    /\ UNCHANGED <<cfgVars, regVars, objVars, loopVars, excVars, argVars, authorIdx, paramIdx,
                   repoVars, calls>>

\* line 57: the generator raises (a probe, listing or download request failed)
FetchFails ==
    /\ pc = "files"
    /\ Except(<<"crawl">>)
    /\ UNCHANGED <<cfgVars, inVars, repoVars, calls>>

\* lines 93-95: skip_content, the stream is closed and nothing is staged
StageSkipContent ==
    /\ pc = "stage"
    /\ skip_content
    /\ items' = SetCurItem([CurItem EXCEPT !.stream = StreamAfterStaging(skip_content)])
    /\ pc' = "post"
    /\ UNCHANGED <<cfgVars, regVars, objVars, loopVars, excVars, argVars, authorIdx, paramIdx,
                   repoVars, calls>>

\* lines 66-84: the stream is read to its end into the temporary file; an
\* artifact larger than file_max_size is skipped (continue)
StageDownload ==
    /\ pc = "stage"
    /\ ~skip_content
    /\ \E size \in StagedSizes :
        /\ items' = SetCurItem([CurItem EXCEPT
                                   !.stream = StreamAfterStaging(skip_content),
                                   !.skipped = TooLarge(file_max_size, size),
                                   !.tmp_file = IF TooLarge(file_max_size, size)
                                                THEN "closed" ELSE @])
        /\ pc' = StepAfterStaging(file_max_size, size)
    /\ UNCHANGED <<cfgVars, regVars, objVars, loopVars, excVars, argVars, authorIdx, paramIdx,
                   repoVars, calls>>

\* lines 72-75: reading the stream raises; the stream is closed, the error re-raised
StageDownloadFails ==
    /\ pc = "stage"
    /\ ~skip_content
    /\ items' = SetCurItem([CurItem EXCEPT !.stream = "closed_failed",
                                            !.tmp_file = "closed"])
    /\ Except(<<"download">>)
    /\ UNCHANGED <<cfgVars, argVars, authorIdx, paramIdx, repoVars, calls>>

\* line 107 binds multipart anew: the encoder of the item before, and with it
\* the file object of line 109 that nothing has closed, is referenced no more
Rebound(its) ==
    [i \in 1..Len(its) |->
        IF its[i].upload = "open" THEN [its[i] EXCEPT !.upload = "unreferenced"] ELSE its[i]]

\* lines 107-110, 63: the encoder is given open(tmp_file.name, "rb"), which is
\* not closed; leaving the with block closes and deletes the temporary file
Posted(its, id) ==
    [Rebound(its) EXCEPT ![Len(its)] =
        [@ EXCEPT !.file = id, !.upload = "open", !.tmp_file = "closed"]]

\* lines 97-116: POST objects/?type=FileObject, then both dicts are updated
PostFileObject ==
    /\ pc = "post"
    /\ \/ /\ CreateOk("FileObject", <<>>, CurItem.path, 0)
          /\ items' = Posted(items, nextId)
          /\ created_ids' = Register(nextId, "FileObject")
          /\ created_files' = Append(created_files, [id |-> nextId, path |-> CurItem.path])
          /\ pc' = "files"
          /\ UNCHANGED <<objVars, loopVars, excVars>>
       \/ /\ CallFails("create", "FileObject", 0, <<>>)
          /\ Except(<<"create", "FileObject">>)
          /\ items' = Posted(items, 0)
    /\ UNCHANGED <<cfgVars, argVars, authorIdx, paramIdx>>

\* ---------------------------------------------------------- 3. grouping
\* lines 131-138 when is_modGP, nothing otherwise
NestedItemsOf(files) == IF IsModGP(files) THEN GroupFiles(files, <<>>) ELSE <<>>

\* the generator is exhausted; lines 123-138 run; with no nested dataset to
\* create, lines 140-147 change nothing
FilesDone ==
    /\ pc = "files"
    /\ nested_datasets_items' = NestedItemsOf(created_files)
    /\ nestIdx' = 1
    /\ pc' = IF NestedItemsOf(created_files) = <<>> THEN "params" ELSE "nested"
    /\ UNCHANGED <<cfgVars, regVars, objVars, bpList, bpIdx, delIdx, excVars, inVars,
                   repoVars, calls>>

\* lines 140-147: one nested dataset; after the last one the absorbed files
\* are deleted from created_ids
CreateNestedDataset ==
    /\ pc = "nested"
    /\ LET grp == nested_datasets_items[nestIdx]
           last == nestIdx = Len(nested_datasets_items)
       IN \/ /\ CreateOk("Dataset", grp.items, <<>>, 0)
             /\ created_ids' =
                   IF last
                   THEN RewriteCreatedIds(Register(nextId, "Dataset"), nested_datasets_items)
                   ELSE Register(nextId, "Dataset")
             /\ nestIdx' = nestIdx + 1
             /\ pc' = IF last THEN "params" ELSE "nested"
             /\ UNCHANGED <<created_files, objVars, nested_datasets_items, bpList, bpIdx,
                            delIdx, excVars>>
          \/ /\ CallFails("create", "Dataset", 0, grp.items)
             /\ Except(<<"create", "Dataset">>)
    /\ UNCHANGED <<cfgVars, inVars>>

\* -------------------------------------------------------- 4. parameters
\* lines 151-163 (and the test of line 164)
CreateFormalParameter ==
    /\ pc = "params"
    /\ paramIdx <= Len(wfl_parameters)
    /\ LET hasValue == wfl_parameters[paramIdx].value
       IN
        /\ paramIdx' = paramIdx + 1
        /\ \/ /\ CreateOk("FormalParameter", <<>>, <<>>, 0)
              /\ created_ids' = Register(nextId, "FormalParameter")
              /\ pc' = IF hasValue THEN "propval" ELSE "params"
              /\ UNCHANGED <<created_files, objVars, loopVars, excVars>>
           \/ /\ CallFails("create", "FormalParameter", 0, <<>>)
              /\ Except(<<"create", "FormalParameter">>)
    /\ UNCHANGED <<cfgVars, argVars, authorIdx, items>>

\* lines 165-171
CreatePropertyValue ==
    /\ pc = "propval"
    /\ \/ /\ CreateOk("PropertyValue", <<>>, <<>>, 0)
          /\ created_ids' = Register(nextId, "PropertyValue")
          /\ pc' = "params"
          /\ UNCHANGED <<created_files, objVars, loopVars, excVars>>
       \/ /\ CallFails("create", "PropertyValue", 0, <<>>)
          /\ Except(<<"create", "PropertyValue">>)
    /\ UNCHANGED <<cfgVars, inVars>>

\* the loop of line 151 ends
ParametersDone ==
    /\ pc = "params"
    /\ paramIdx > Len(wfl_parameters)
    /\ pc' = "language"
    /\ UNCHANGED <<cfgVars, regVars, objVars, loopVars, excVars, inVars, repoVars, calls>>

\* ------------------------------------------- 5.-7. language, workflow, action, root
\* lines 174-184
CreateComputerLanguage ==
    /\ pc = "language"
    /\ \/ /\ CreateOk("ComputerLanguage", <<>>, <<>>, 0)
          /\ computer_language_obj' = nextId
          /\ created_ids' = Register(nextId, "ComputerLanguage")
          /\ pc' = "workflow"
          /\ UNCHANGED <<created_files, create_action_author, wfl_obj, action, dataset,
                         loopVars, excVars>>
       \/ /\ CallFails("create", "ComputerLanguage", 0, <<>>)
          /\ Except(<<"create", "ComputerLanguage">>)
    /\ UNCHANGED <<cfgVars, inVars>>

\* lines 187-206
CreateWorkflow ==
    /\ pc = "workflow"
    /\ \/ /\ CreateOk("Workflow", <<>>, <<"workflow.yaml">>, 0)
          /\ wfl_obj' = nextId
          /\ created_ids' = Register(nextId, "Workflow")
          /\ pc' = "action"
          /\ UNCHANGED <<created_files, create_action_author, computer_language_obj,
                         action, dataset, loopVars, excVars>>
       \/ /\ CallFails("create", "Workflow", 0, <<>>)
          /\ Except(<<"create", "Workflow">>)
    /\ UNCHANGED <<cfgVars, inVars>>

\* lines 223-237 with the create call of line 232 left out
CreateActionOmitted ==
    /\ pc = "action"
    /\ pc' = "root"
    /\ UNCHANGED <<cfgVars, regVars, objVars, loopVars, excVars, inVars, repoVars, calls>>

\* lines 223-237
CreateAction ==
    /\ pc = "action"
    /\ \/ /\ CreateOk("CreateAction", ActionResult(created_ids), <<>>, create_action_author)
          /\ action' = nextId
          /\ created_ids' = Register(nextId, "CreateAction")
          /\ pc' = "root"
          /\ UNCHANGED <<created_files, create_action_author, computer_language_obj,
                         wfl_obj, dataset, loopVars, excVars>>
       \/ /\ CallFails("create", "CreateAction", 0, ActionResult(created_ids))
          /\ Except(<<"create", "CreateAction">>)
    /\ UNCHANGED <<cfgVars, inVars>>

\* lines 239-256: the root Dataset, then the list the back-patch loop walks
CreateRootDataset ==
    /\ pc = "root"
    /\ \/ /\ CreateOk("Dataset", RootHasPart(created_ids), <<>>, 0)
          /\ dataset' = nextId
          /\ created_ids' = Register(nextId, "Dataset")
          /\ bpList' = BackpatchList(Register(nextId, "Dataset"), nextId)
          /\ bpIdx' = 1
          /\ pc' = "backpatch"
          /\ UNCHANGED <<created_files, create_action_author, computer_language_obj,
                         wfl_obj, action, nested_datasets_items, nestIdx, delIdx, excVars>>
       \/ /\ CallFails("create", "Dataset", 0, RootHasPart(created_ids))
          /\ Except(<<"create", "RootDataset">>)
    /\ UNCHANGED <<cfgVars, inVars>>

\* ------------------------------------------------------- 8. back-patch
\* line 257
BackpatchRead ==
    /\ pc = "backpatch"
    /\ bpIdx <= Len(bpList)
    /\ \/ /\ calls' = Append(calls, Call("read", repo[bpList[bpIdx]].kind, bpList[bpIdx],
                                         TRUE, <<>>))
          /\ pc' = "bp_update"
          /\ UNCHANGED <<repoVars, regVars, objVars, loopVars, excVars>>
       \/ /\ CallFails("read", repo[bpList[bpIdx]].kind, bpList[bpIdx], <<>>)
          /\ Except(<<"read", bpList[bpIdx]>>)
    /\ UNCHANGED <<cfgVars, inVars>>

\* lines 258-259: isPartOf is set when the object read declares none
WithIsPartOf(obj, root) ==
    IF obj.isPartOf = <<>> THEN [obj EXCEPT !.isPartOf = <<root>>] ELSE obj

\* line 260
BackpatchUpdate ==
    /\ pc = "bp_update"
    /\ LET id == bpList[bpIdx]
       IN \/ /\ repo' = [repo EXCEPT ![id] =
                            [WithIsPartOf(repo[id], dataset) EXCEPT !.modified = clock + 1]]
             /\ clock' = clock + 1
             /\ calls' = Append(calls, Call("update", repo[id].kind, id, TRUE, <<>>))
             /\ bpIdx' = bpIdx + 1
             /\ pc' = "backpatch"
             /\ UNCHANGED <<nextId, regVars, objVars, nested_datasets_items, nestIdx,
                            bpList, delIdx, excVars>>
          \/ /\ CallFails("update", repo[id].kind, id, <<>>)
             /\ Except(<<"update", id>>)
    /\ UNCHANGED <<cfgVars, inVars>>

\* ------------------------------------------------------------ 9. touch
\* lines 264-267 with the update call of line 264 left out
TouchRootOmitted ==
    /\ pc = "backpatch"
    /\ bpIdx > Len(bpList)
    /\ pc' = "done"
    /\ UNCHANGED <<cfgVars, regVars, objVars, loopVars, excVars, inVars, repoVars, calls>>

\* lines 264-267: the root Dataset is saved again, its id returned
TouchRoot ==
    /\ pc = "backpatch"
    /\ bpIdx > Len(bpList)
    /\ \/ /\ repo' = [repo EXCEPT ![dataset].modified = clock + 1]
          /\ clock' = clock + 1
          /\ calls' = Append(calls, Call("update", "Dataset", dataset, TRUE, <<>>))
          /\ pc' = "done"
          /\ UNCHANGED <<nextId, regVars, objVars, loopVars, excVars>>
       \/ /\ CallFails("update", "Dataset", dataset, <<>>)
          /\ Except(<<"update", dataset>>)
    /\ UNCHANGED <<cfgVars, inVars>>

\* ------------------------------------------------------------- rollback
\* lines 270-271: one delete; a delete that raises leaves the handler
RollbackDelete ==
    /\ pc = "rollback"
    /\ delIdx <= Len(created_ids)
    /\ LET id == created_ids[delIdx].id
       IN \/ /\ repo' = [i \in DOMAIN repo \ {id} |-> repo[i]]
             /\ calls' = Append(calls, Call("delete", created_ids[delIdx].kind, id,
                                            TRUE, <<>>))
             /\ delIdx' = delIdx + 1
             /\ UNCHANGED <<pc, raised, clock, nextId>>
          \/ /\ CallFails("delete", created_ids[delIdx].kind, id, <<>>)
             /\ raised' = <<"delete", id>>
             /\ pc' = "raised"
             /\ UNCHANGED delIdx
    /\ UNCHANGED <<cfgVars, regVars, objVars, nested_datasets_items, nestIdx, bpList,
                   bpIdx, err, inVars>>

\* line 272: raise e
Reraise ==
    /\ pc = "rollback"
    /\ delIdx > Len(created_ids)
    /\ raised' = err
    /\ pc' = "raised"
    /\ UNCHANGED <<cfgVars, regVars, objVars, loopVars, err, inVars, repoVars, calls>>

Next ==
    \/ CreatePerson
    \/ AuthorsDone
    \/ FetchItem
    \/ FetchFails
    \/ StageSkipContent
    \/ StageDownload
    \/ StageDownloadFails
    \/ PostFileObject
    \/ FilesDone
    \/ CreateNestedDataset
    \/ CreateFormalParameter
    \/ CreatePropertyValue
    \/ ParametersDone
    \/ CreateComputerLanguage
    \/ CreateWorkflow
    \/ CreateAction
    \/ CreateRootDataset
    \/ BackpatchRead
    \/ BackpatchUpdate
    \/ TouchRoot
    \/ RollbackDelete
    \/ Reraise

Spec == Init /\ [][Next]_vars

\* ================================================================ claims
\* ids of the entities the repository created for this invocation so far
CreatedSoFar == {calls[i].id : i \in {j \in 1..Len(calls) : calls[j].op = "create" /\ calls[j].ok}}

\* ids a delete call was issued for
DeleteAttempted == {calls[i].id : i \in {j \in 1..Len(calls) : calls[j].op = "delete"}}

DeleteCalls == {j \in 1..Len(calls) : calls[j].op = "delete"}

NoDeleteFailed == \A j \in DeleteCalls : calls[j].ok

\* successful create calls of one kind
CreatesOf(kind) ==
    {j \in 1..Len(calls) : calls[j].op = "create" /\ calls[j].ok /\ calls[j].kind = kind}

\* C1: when the Builder fails after N entities were created and every delete
\* succeeds, exactly N deletes are issued, one per created id, and the error
\* reaching the caller is the triggering one.
C1_RollbackDeletesEveryCreated ==
    (pc = "raised" /\ NoDeleteFailed) =>
        /\ DeleteAttempted = CreatedSoFar
        /\ Cardinality(DeleteCalls) = Cardinality(CreatedSoFar)
        /\ raised = err

\* C2: once rollback ran, a delete was attempted for every id of the registry,
\* whether or not some delete failed.
C2_DeleteAttemptedForEveryEntry ==
    pc = "raised" => RegistryIds(created_ids) \subseteq DeleteAttempted

\* C3: the error that leaves the Builder is the triggering error, also when a
\* rollback delete failed.
C3_OriginalErrorReraised ==
    pc = "raised" => raised = err

\* C4: the registry holds exactly the ids created so far; none is ever removed.
C4_RegistryCompleteAppendOnly ==
    RegistryIds(created_ids) = CreatedSoFar

\* ---------------------------------------------------------------- C5
\* create calls issued by the root step (line 251), successful or not
RootCreateCalls == {j \in 1..Len(calls) : calls[j].op = "create" /\ calls[j].at = "root"}

\* successful creates of one kind among the first n calls
CreatedBefore(kind, n) == {j \in CreatesOf(kind) : j < n}

ItemsWithFile == {i \in 1..Len(items) : items[i].file # 0}

ParametersWithValue == {i \in 1..Len(wfl_parameters) : wfl_parameters[i].value}

\* C5: the create call for the root Dataset comes after the successful creation
\* of every other entity of the run (one Person per submitter annotation, one
\* FileObject per item that was not skipped, every nested Dataset, one
\* FormalParameter per parameter, one PropertyValue per parameter with a value,
\* the ComputerLanguage, the Workflow, the CreateAction), and no create call
\* follows it.
C5_RootDatasetCreatedLast ==
    \A r \in RootCreateCalls :
        /\ \A j \in 1..Len(calls) : j > r => calls[j].op # "create"
        /\ Cardinality(CreatedBefore("Person", r)) = Len(annotations)
        /\ \A i \in 1..Len(items) : items[i].skipped \/ items[i].file # 0
        /\ Cardinality(CreatedBefore("FileObject", r)) = Cardinality(ItemsWithFile)
        /\ Cardinality({j \in CreatedBefore("Dataset", r) : calls[j].at = "nested"})
              = Len(nested_datasets_items)
        /\ Cardinality(CreatedBefore("FormalParameter", r)) = Len(wfl_parameters)
        /\ Cardinality(CreatedBefore("PropertyValue", r)) = Cardinality(ParametersWithValue)
        /\ Cardinality(CreatedBefore("ComputerLanguage", r)) = 1
        /\ Cardinality(CreatedBefore("Workflow", r)) = 1
        /\ Cardinality(CreatedBefore("CreateAction", r)) = 1

\* a run that created persons, a file, a nested dataset, a parameter with its
\* value and then the root Dataset
C5_Witness ==
    /\ dataset # 0
    /\ annotations # <<>>
    /\ ItemsWithFile # {}
    /\ nested_datasets_items # <<>>
    /\ ParametersWithValue # {}

\* ---------------------------------------------------------------- C6
WriteCalls == {j \in 1..Len(calls) : calls[j].op \in {"create", "update"}}

LastWrite == calls[CHOOSE j \in WriteCalls : \A k \in WriteCalls : k <= j]

\* C6: on a successful run the last write issued to the repository is the
\* re-save of the root Dataset, and the root Dataset's last-modified time is
\* not older than that of any other entity.
C6_RootTouchedLast ==
    pc = "done" =>
        /\ LastWrite.op = "update" /\ LastWrite.id = dataset /\ LastWrite.ok
        /\ \A id \in DOMAIN repo : repo[dataset].modified >= repo[id].modified

\* a successful run whose back-patch loop wrote at least one child
C6_Witness ==
    /\ pc = "done"
    /\ \E j \in 1..Len(calls) : calls[j].op = "update" /\ calls[j].id # dataset

\* ---------------------------------------------------------------- C7
\* the items a FileObject was created from
ItemsOfFile(f) == {i \in 1..Len(items) : items[i].file = f}

FileObjectIds == {calls[j].id : j \in CreatesOf("FileObject")}

\* C7 as claimed: every FileObject comes from exactly one crawler item, whose
\* stream was read into staging before the create, in every configuration.
C7_EveryFileObjectTransferred ==
    /\ Cardinality(CreatesOf("FileObject")) = Cardinality(ItemsWithFile)
    /\ \A f \in FileObjectIds :
        /\ Cardinality(ItemsOfFile(f)) = 1
        /\ \A i \in ItemsOfFile(f) : items[i].stream = "read"

\* C7 amended: every FileObject comes from exactly one crawler item and no item
\* yields two; with skip_content off the item's stream was read into staging
\* before the create, with skip_content on it was closed without being read.
C7_FileObjectPerItem ==
    /\ Cardinality(CreatesOf("FileObject")) = Cardinality(ItemsWithFile)
    /\ \A f \in FileObjectIds :
        /\ Cardinality(ItemsOfFile(f)) = 1
        /\ \A i \in ItemsOfFile(f) :
              items[i].stream = (IF skip_content THEN "closed_unread" ELSE "read")

\* two FileObjects were created in skip_content mode
C7_Witness ==
    /\ skip_content
    /\ Cardinality(FileObjectIds) = 2

\* ---------------------------------------------------------------- C8
DatasetCreateCalls == {j \in 1..Len(calls) : calls[j].op = "create" /\ calls[j].kind = "Dataset"}

\* C8: every Dataset, nested or root, is created with a non-empty hasPart.
C8_DatasetHasMember ==
    \A j \in DatasetCreateCalls : calls[j].hasPart # <<>>

\* a nested Dataset and the root Dataset were both created
C8_Witness ==
    /\ \E j \in DatasetCreateCalls : calls[j].ok /\ calls[j].at = "nested"
    /\ \E j \in DatasetCreateCalls : calls[j].ok /\ calls[j].at = "root"

\* ---------------------------------------------------------------- C9
\* positions of the marker segments "Exports", "ModGP" with a (coarse, fine)
\* pair and a file name after them
MarkerPositions(sp) ==
    {i \in 1..Len(sp) : /\ i + 4 <= Len(sp)
                        /\ sp[i] = <<"Exports">>
                        /\ sp[i + 1] = <<"ModGP">>}

CategoryPairs(path) ==
    LET sp == Split(path) IN {<<sp[i + 2], sp[i + 3]>> : i \in MarkerPositions(sp)}

YieldedPairs == UNION {CategoryPairs(items[i].path) : i \in 1..Len(items)}

NestedDatasetIds == {calls[j].id : j \in {k \in CreatesOf("Dataset") : calls[k].at = "nested"}}

\* C9: in a successful run whose items all lie under the marker path (and all
\* became FileObjects), there is one nested Dataset per distinct (coarse, fine)
\* pair, no FileObject is left in the top-level set, and the root Dataset's
\* parts hold every nested Dataset and no FileObject.
C9_OneDatasetPerCategoryPair ==
    (/\ pc = "done"
     /\ items # <<>>
     /\ \A i \in 1..Len(items) :
            CategoryPairs(items[i].path) # {} /\ ~items[i].skipped)
    => /\ Cardinality(NestedDatasetIds) = Cardinality(YieldedPairs)
       /\ IdsOfKind(created_ids, {"FileObject"}) = <<>>
       /\ NestedDatasetIds \subseteq Range(repo[dataset].hasPart)
       /\ Range(repo[dataset].hasPart) \cap FileObjectIds = {}

\* ================================================================ crawler
\* ----------------------------------------------------- os.path, str (argo.py)
\* str.rfind("/") + 1: the length of the text up to the last "/", 0 without one
RECURSIVE LastSlash(_, _)
LastSlash(p, i) ==
    IF i = 0 THEN 0 ELSE IF p[i] = Slash THEN i ELSE LastSlash(p, i - 1)

AllSlashes(p) == \A i \in 1..Len(p) : p[i] = Slash

\* str.rstrip("/")
RECURSIVE RStripSlash(_)
RStripSlash(p) ==
    IF p # <<>> /\ p[Len(p)] = Slash THEN RStripSlash(SubSeq(p, 1, Len(p) - 1)) ELSE p

\* os.path.dirname (posixpath)
Dirname(p) ==
    LET head == SubSeq(p, 1, LastSlash(p, Len(p)))
    IN IF head # <<>> /\ ~AllSlashes(head) THEN RStripSlash(head) ELSE head

\* os.path.join(a, b) (posixpath): an absolute b discards a
PathJoin(a, b) ==
    IF b # <<>> /\ b[1] = Slash THEN b
    ELSE IF a = <<>> \/ a[Len(a)] = Slash THEN a \o b
    ELSE a \o <<Slash>> \o b

\* line 119: the pieces of the header around "filename="
HeaderPieces(h) == SplitFrom(h, "filename=", 1, <<>>)

\* line 119: .split("filename=")[1] raises IndexError without a second piece
HasFileName(h) == Len(HeaderPieces(h)) > 1

\* line 119: .split("filename=")[1][1:-1]
HeaderFileName(h) ==
    LET piece == HeaderPieces(h)[2] IN SubSeq(piece, 2, Len(piece) - 1)

\* line 120
RewrittenPath(path, h) == PathJoin(Dirname(path), HeaderFileName(h))

\* lines 146-148: the relative path of an artifact
ArtifactPath(node_id, file_path) ==
    PathJoin(node_id,
             IF file_path # <<>> /\ file_path[1] = Slash THEN Tail(file_path) ELSE file_path)

\* line 143
ArtifactUrl(node_id, artifact_name) ==
    <<"host/artifact-files/ns/workflows/wf", Slash>> \o node_id
        \o <<Slash, "outputs", Slash>> \o artifact_name

\* line 133: urllib.parse.urljoin(url + "/", href) for a relative href
ChildUrl(url, href) == url \o <<Slash>> \o href

\* --------------------------------------------------- what the server holds
\* the response headers of a file download: Content-Disposition
Disposition(name) == <<"attachment; ", "filename=", "q">> \o name \o <<"q">>

FileNode(h) == [disposition |-> h, hrefs |-> <<>>, children |-> <<>>]

DirNode(hrefs, children) == [disposition |-> <<>>, hrefs |-> hrefs, children |-> children]

ParentLink == <<"..">>

\* a crawl that would follow every link of a listing, the parent link too
IsParentLinkNever(href) == FALSE

\* line 131: href == ".."
IsParentLink(href) == href = ParentLink

SubDir ==
    DirNode(<< <<"c.txt">>, ParentLink >>,
            << FileNode(Disposition(<<"c.txt">>)), DirNode(<<>>, <<>>) >>)

DirTree ==
    DirNode(<< <<"a.txt">>, <<"b", Slash>>, ParentLink >>,
            << FileNode(Disposition(<<"a.zip">>)), SubDir, DirNode(<<>>, <<>>) >>)

\* artifacts of a run as parse_artifact_list returns them, each with the tree
\* the archive endpoint serves under its URL
Artifacts ==
    { [node_id |-> <<"n">>, name |-> <<"out">>,
       file_path |-> <<Slash, "tmp", Slash, "a.txt">>,
       tree |-> FileNode(Disposition(<<"a.zip">>))],
      [node_id |-> <<"n">>, name |-> <<"abs">>,
       file_path |-> <<Slash, "tmp", Slash, "a.txt">>,
       tree |-> FileNode(Disposition(<<Slash, "a.zip">>))],
      [node_id |-> <<"n">>, name |-> <<"main-logs">>,
       file_path |-> <<"main.log">>,
       tree |-> FileNode(Disposition(<<"main.log">>))],
      [node_id |-> <<"n">>, name |-> <<"inline">>,
       file_path |-> <<Slash, "tmp", Slash, "a.txt">>,
       tree |-> FileNode(<<"inline">>)],
      [node_id |-> <<"m">>, name |-> <<"dir">>,
       file_path |-> <<Slash, "tmp", Slash, "d">>,
       tree |-> DirTree],
      [node_id |-> <<"n">>, name |-> <<"species">>,
       file_path |-> <<Slash, "d", Slash, "Exports", Slash, "ModGP", Slash,
                       "g1", Slash, "s1", Slash, "f">>,
       tree |-> FileNode(Disposition(<<"f">>))] }

ArtifactLists == UNION {[1..n -> Artifacts] : n \in 0..MaxArtifacts}

\* the Builder when it is not running
SagaIdle ==
    /\ pc = "idle"
    /\ skip_content = FALSE
    /\ file_max_size = 0
    /\ created_ids = <<>>
    /\ created_files = <<>>
    /\ create_action_author = 0
    /\ nested_datasets_items = <<>>
    /\ nestIdx = 1
    /\ computer_language_obj = 0
    /\ wfl_obj = 0
    /\ action = 0
    /\ dataset = 0
    /\ bpList = <<>>
    /\ bpIdx = 1
    /\ delIdx = 1
    /\ err = <<>>
    /\ raised = <<>>
    /\ annotations = <<>>
    /\ authorIdx = 1
    /\ wfl_parameters = <<>>
    /\ paramIdx = 1
    /\ items = <<>>
    /\ repo = <<>>
    /\ clock = 0
    /\ nextId = 1
    /\ calls = <<>>

builderVars == <<pc, skip_content, file_max_size, regVars, objVars, loopVars, excVars,
                 inVars, repoVars, calls>>

sagaVars == <<builderVars, docVars>>

CrawlInit ==
    /\ SagaIdle
    /\ DocIdle
    /\ artifact_list \in ArtifactLists
    /\ artIdx = 1
    /\ stack = <<>>
    /\ requests = <<>>
    /\ yielded = <<>>
    /\ crawl = "running"

Top == stack[Len(stack)]

Pop == SubSeq(stack, 1, Len(stack) - 1)

SetTop(f) == [stack EXCEPT ![Len(stack)] = f]

Frame(url, path, node) ==
    [url |-> url, path |-> path, node |-> node, phase |-> "probe", link |-> 1]

\* a probe whose connection is left open
ConnectionLeftOpen(purpose) == "open"

\* the connection of a request once the statement that issued it is done: the
\* with block of lines 108-111 closes the probe's, line 127 reads the whole
\* listing, line 121 leaves the download's open for the stream it yields
ConnectionAfter(purpose) == IF purpose = "download" THEN "open" ELSE "closed"

\* what the crawler reads of the response body: nothing of the probe's (108-111),
\* all of the listing's (127), the download's is handed out as the stream (124)
BodyUse(purpose) ==
    CASE purpose = "probe" -> "unread"
      [] purpose = "list" -> "read"
      [] OTHER -> "yielded"

\* the statuses the server answers a probe with
ProbeStatuses == {200, 404, 500}

\* Response.raise_for_status raises for the statuses from 400 to 599
RaisesForStatus(status) == status >= 400 /\ status < 600

\* every request of lines 108, 121 and 127 is requests.get
Request(url, stream, purpose, ok) ==
    [method |-> "GET", url |-> url, stream |-> stream, purpose |-> purpose, ok |-> ok,
     conn |-> ConnectionAfter(purpose), body |-> BodyUse(purpose)]

\* lines 141-150: artifact_reader starts the crawl of the next artifact
NextArtifact ==
    /\ crawl = "running"
    /\ stack = <<>>
    /\ artIdx <= Len(artifact_list)
    /\ LET a == artifact_list[artIdx]
       IN stack' = <<Frame(ArtifactUrl(a.node_id, a.name),
                           ArtifactPath(a.node_id, a.file_path), a.tree)>>
    /\ artIdx' = artIdx + 1
    /\ UNCHANGED <<sagaVars, artifact_list, requests, yielded, crawl>>

\* the loop of line 141 ends
CrawlDone ==
    /\ crawl = "running"
    /\ stack = <<>>
    /\ artIdx > Len(artifact_list)
    /\ crawl' = "done"
    /\ UNCHANGED <<sagaVars, artifact_list, artIdx, stack, requests, yielded>>

\* lines 108-111: the probe, a streaming GET closed after the headers are read
Probe ==
    /\ crawl = "running"
    /\ stack # <<>>
    /\ Top.phase = "probe"
    /\ \E status \in ProbeStatuses :
          IF status # 200 /\ RaisesForStatus(status)
          THEN /\ requests' = Append(requests, Request(Top.url, TRUE, "probe", FALSE))
               /\ crawl' = "raised"
               /\ UNCHANGED stack
          ELSE /\ requests' = Append(requests, Request(Top.url, TRUE, "probe", TRUE))
               /\ stack' = SetTop([Top EXCEPT !.phase =
                                     IF Top.node.disposition # <<>> THEN "download" ELSE "list"])
               /\ UNCHANGED crawl
    /\ UNCHANGED <<sagaVars, artifact_list, artIdx, yielded>>

\* line 119 raises IndexError: the header names no file
DownloadNoFileName ==
    /\ crawl = "running"
    /\ stack # <<>>
    /\ Top.phase = "download"
    /\ ~HasFileName(Top.node.disposition)
    /\ crawl' = "raised"
    /\ UNCHANGED <<sagaVars, artifact_list, artIdx, stack, requests, yielded>>

\* lines 119-124: the second GET; the item is yielded and the call returns
Download ==
    /\ crawl = "running"
    /\ stack # <<>>
    /\ Top.phase = "download"
    /\ HasFileName(Top.node.disposition)
    /\ \/ /\ requests' = Append(requests, Request(Top.url, TRUE, "download", TRUE))
          /\ yielded' = Append(yielded,
                               [path |-> RewrittenPath(Top.path, Top.node.disposition),
                                declared |-> Top.path,
                                header |-> Top.node.disposition,
                                url |-> Top.url])
          /\ stack' = Pop
          /\ UNCHANGED crawl
       \/ /\ requests' = Append(requests, Request(Top.url, TRUE, "download", FALSE))
          /\ crawl' = "raised"
          /\ UNCHANGED <<stack, yielded>>
    /\ UNCHANGED <<sagaVars, artifact_list, artIdx>>

\* lines 127-129: the directory listing is fetched and parsed
ListDirectory ==
    /\ crawl = "running"
    /\ stack # <<>>
    /\ Top.phase = "list"
    /\ requests' = Append(requests, Request(Top.url, FALSE, "list", TRUE))
    /\ stack' = SetTop([Top EXCEPT !.phase = "links", !.link = 1])
    /\ UNCHANGED <<sagaVars, artifact_list, artIdx, yielded, crawl>>

\* lines 129-135: one link; ".." is passed over, any other link is crawled
FollowLink ==
    /\ crawl = "running"
    /\ stack # <<>>
    /\ Top.phase = "links"
    /\ Top.link <= Len(Top.node.hrefs)
    /\ LET href == Top.node.hrefs[Top.link]
           parent == [Top EXCEPT !.link = @ + 1]
       IN stack' = IF IsParentLink(href)
                   THEN SetTop(parent)
                   ELSE Append(SetTop(parent),
                               Frame(ChildUrl(Top.url, href), PathJoin(Top.path, href),
                                     Top.node.children[Top.link]))
    /\ UNCHANGED <<sagaVars, artifact_list, artIdx, requests, yielded, crawl>>

\* the loop of line 129 ends and the call returns
LinksDone ==
    /\ crawl = "running"
    /\ stack # <<>>
    /\ Top.phase = "links"
    /\ Top.link > Len(Top.node.hrefs)
    /\ stack' = Pop
    /\ UNCHANGED <<sagaVars, artifact_list, artIdx, requests, yielded, crawl>>

CrawlNext ==
    \/ NextArtifact
    \/ CrawlDone
    \/ Probe
    \/ DownloadNoFileName
    \/ Download
    \/ ListDirectory
    \/ FollowLink
    \/ LinksDone

CrawlSpec == CrawlInit /\ [][CrawlNext]_vars

\* ---------------------------------------------------------------- C10
\* the path with its final segment replaced by name, the rest kept as it is
ReplaceFinalSegment(path, name) == SubSeq(path, 1, LastSlash(path, Len(path))) \o name

SuccessfulDownloads ==
    {j \in 1..Len(requests) : requests[j].purpose = "download" /\ requests[j].ok}

\* C10: every URL answered with a Content-Disposition header yields one item
\* (one per download that succeeded), whose path is the declared path with its
\* final segment replaced by the file name of the header.
C10_FinalSegmentReplaced ==
    /\ Len(yielded) = Cardinality(SuccessfulDownloads)
    /\ \A i \in 1..Len(yielded) :
          yielded[i].path =
              ReplaceFinalSegment(yielded[i].declared, HeaderFileName(yielded[i].header))

\* the consumer's for loop drives the generator until it is exhausted or raises
CrawlFairSpec == CrawlSpec /\ WF_vars(CrawlNext)

\* ---------------------------------------------------------------- C11
\* the URLs of the files below node, depth first, in the link order of each
\* listing, from link k of the listing on
RECURSIVE TreeFiles(_, _, _)
TreeFiles(node, url, k) ==
    IF node.disposition # <<>> THEN <<url>>
    ELSE IF k > Len(node.hrefs) THEN <<>>
    ELSE (IF node.hrefs[k] = ParentLink THEN <<>>
          ELSE TreeFiles(node.children[k], ChildUrl(url, node.hrefs[k]), 1))
         \o TreeFiles(node, url, k + 1)

RECURSIVE FilesOfArtifacts(_)
FilesOfArtifacts(k) ==
    IF k > Len(artifact_list) THEN <<>>
    ELSE TreeFiles(artifact_list[k].tree,
                   ArtifactUrl(artifact_list[k].node_id, artifact_list[k].name), 1)
         \o FilesOfArtifacts(k + 1)

YieldedUrls == [i \in 1..Len(yielded) |-> yielded[i].url]

IsPrefix(s, t) == Len(s) <= Len(t) /\ s = SubSeq(t, 1, Len(s))

NoParentRequest ==
    \A j \in 1..Len(requests) :
        LET url == requests[j].url
        IN SubSeq(url, Len(url) - Len(ParentLink) + 1, Len(url)) # ParentLink

\* C11: crawling finite directory trees whose listings hold their child links
\* and a parent link terminates, never requests a parent link, and yields one
\* item per file of the trees, depth first in the link order of each listing.
C11_CrawlTreeDepthFirst ==
    /\ [](NoParentRequest /\ IsPrefix(YieldedUrls, FilesOfArtifacts(1)))
    /\ [](crawl = "done" => YieldedUrls = FilesOfArtifacts(1))
    /\ <>(crawl \in {"done", "raised"})

\* a crawl of the two-level tree has ended with its three files yielded
C11_Witness ==
    /\ crawl = "done"
    /\ \E k \in 1..Len(artifact_list) : artifact_list[k].name = <<"dir">>
    /\ Len(yielded) >= 3
    /\ \E j \in 1..Len(requests) : requests[j].purpose = "list"

\* ===================================================== parse_artifact_list
MaxNodes == 2

\* wfl["metadata"]["name"]
RunName == <<"wf">>

KeyInRun(file) == <<"bucket", Slash>> \o RunName \o <<Slash, "n", Slash>> \o file
KeyInLongerRun(file) == <<"bucket", Slash>> \o RunName \o <<"-2", Slash, "n", Slash>> \o file
KeyOfCache(file) == <<"bucket", Slash, "cache", Slash>> \o file

\* one entry of node["outputs"]["artifacts"]; deleted and artifactGC are
\* "absent" when the artifact has no such key, has_path tells whether it has
\* the key path
Artifact(name, key, deleted, artifactGC, has_path, path) ==
    [name |-> name, key |-> key, deleted |-> deleted, artifactGC |-> artifactGC,
     has_path |-> has_path, path |-> path]

OutTgz == Artifact(<<"out">>, KeyInRun(<<"out.tgz">>), "absent", "absent",
                   TRUE, <<Slash, "tmp", Slash, "out">>)
OutKept == Artifact(<<"kept">>, KeyInLongerRun(<<"kept.tgz">>), "false", "Never",
                    TRUE, <<Slash, "tmp", Slash, "kept">>)
OutCached == Artifact(<<"cached">>, KeyOfCache(<<"c.tgz">>), "absent", "absent",
                      TRUE, <<Slash, "tmp", Slash, "c">>)
OutDeleted == Artifact(<<"gone">>, KeyInRun(<<"gone.tgz">>), "true", "absent",
                       TRUE, <<Slash, "tmp", Slash, "gone">>)
OutCollected == Artifact(<<"msg">>, KeyInRun(<<"msg.tgz">>), "absent", "OnWorkflowCompletion",
                         TRUE, <<Slash, "tmp", Slash, "msg">>)
Logs == Artifact(<<"main-logs">>, KeyInRun(<<"main.log">>), "absent", "absent",
                 FALSE, <<>>)
LogsWithPath == Artifact(<<"main-logs">>, KeyInRun(<<"main.log">>), "absent", "absent",
                         TRUE, <<Slash, "tmp", Slash, "x.log">>)
LogsDeleted == Artifact(<<"main-logs">>, KeyInRun(<<"main.log">>), "true", "absent",
                        FALSE, <<>>)

\* the entries of wfl["status"]["nodes"]: outputs is "absent" for a node
\* without outputs, "parameters" for outputs without artifacts
Node(outputs, artifacts) == [outputs |-> outputs, artifacts |-> artifacts]

Nodes ==
    { Node("absent", <<>>),
      Node("parameters", <<>>),
      Node("artifacts", <<>>),
      Node("artifacts", <<OutTgz, OutCached, Logs>>),
      Node("artifacts", <<OutDeleted, LogsWithPath, OutKept>>),
      Node("artifacts", <<LogsDeleted, OutCollected, OutTgz>>) }

\* the run documents: the dict of nodes in its iteration order, a node's name
\* being its position
LocatorDocs ==
    {[name |-> RunName, nodes |-> ns] : ns \in UNION {[1..n -> Nodes] : n \in 0..MaxNodes}}

\* line 50
HasArtifacts(node) == node.outputs = "artifacts"

\* line 56: wfl["metadata"]["name"] not in artifact["s3"]["key"]
KeyOutsideRun(name, a) == ~Contains(name, a.key)

\* line 61
MarkedDeleted(a) == a.deleted = "true"

\* a Locator that takes no garbage-collection strategy into account
GCPlannedNever(a) == FALSE

\* line 63
GCPlanned(a) == a.artifactGC # "absent" /\ a.artifactGC # "Never"

\* a Locator that emits the declared path of every artifact
OutputPathDeclared(a) == a.path

\* lines 66-69
OutputPath(a) == IF a.name = <<"main-logs">> THEN <<"main.log">> ELSE a.path

LocatorInit ==
    /\ SagaIdle
    /\ CrawlIdle
    /\ wfl \in LocatorDocs
    /\ fpc = "nodes"
    /\ node_name = 1
    /\ artifact = 1
    /\ artifacts_list = <<>>
    /\ spec = <<>>
    /\ start_time = 0
    /\ end_time = 0
    /\ action_properties = <<>>

\* lines 47-53: the next node; one without output artifacts is passed over
LocatorNextNode ==
    /\ fpc = "nodes"
    /\ node_name <= Len(wfl.nodes)
    /\ IF HasArtifacts(wfl.nodes[node_name])
       THEN fpc' = "artifacts" /\ artifact' = 1 /\ UNCHANGED node_name
       ELSE node_name' = node_name + 1 /\ UNCHANGED <<fpc, artifact>>
    /\ UNCHANGED <<builderVars, crawlVars, wfl, artifacts_list, spec, start_time, end_time,
                   action_properties>>

\* lines 54-69: one artifact of the node
LocatorArtifact ==
    /\ fpc = "artifacts"
    /\ artifact <= Len(wfl.nodes[node_name].artifacts)
    /\ LET a == wfl.nodes[node_name].artifacts[artifact]
       IN artifacts_list' =
              IF KeyOutsideRun(wfl.name, a) \/ MarkedDeleted(a) \/ GCPlanned(a)
              THEN artifacts_list
              ELSE Append(artifacts_list, <<node_name, a.name, OutputPath(a)>>)
    /\ artifact' = artifact + 1
    /\ UNCHANGED <<builderVars, crawlVars, wfl, fpc, node_name, spec, start_time, end_time,
                   action_properties>>

\* the loop of line 54 ends
LocatorArtifactsDone ==
    /\ fpc = "artifacts"
    /\ artifact > Len(wfl.nodes[node_name].artifacts)
    /\ fpc' = "nodes"
    /\ node_name' = node_name + 1
    /\ UNCHANGED <<builderVars, crawlVars, wfl, artifact, artifacts_list, spec,
                   start_time, end_time,
                   action_properties>>

\* line 71
LocatorReturn ==
    /\ fpc = "nodes"
    /\ node_name > Len(wfl.nodes)
    /\ fpc' = "returned"
    /\ UNCHANGED <<builderVars, crawlVars, wfl, node_name, artifact, artifacts_list, spec,
                   start_time, end_time,
                   action_properties>>

LocatorNext ==
    \/ LocatorNextNode
    \/ LocatorArtifact
    \/ LocatorArtifactsDone
    \/ LocatorReturn

LocatorSpec == LocatorInit /\ [][LocatorNext]_vars

\* ---------------------------------------------------------------- C12
\* the conditions (i)-(iii) on an artifact of the run
Eligible(a) ==
    /\ Contains(RunName, a.key)
    /\ a.deleted # "true"
    /\ a.artifactGC \in {"absent", "Never"}

\* what an artifact declares as its path, <<>> when it declares none
DeclaredPath(a) == IF a.has_path THEN a.path ELSE <<>>

\* the eligible artifacts of the nodes from n on (artifact k on), each with its
\* node, its name and its declared path
RECURSIVE EligibleFrom(_, _)
EligibleFrom(n, k) ==
    IF n > Len(wfl.nodes) THEN <<>>
    ELSE IF k > Len(wfl.nodes[n].artifacts) THEN EligibleFrom(n + 1, 1)
    ELSE LET a == wfl.nodes[n].artifacts[k]
         IN (IF Eligible(a) THEN <<[node |-> n, a |-> a]>> ELSE <<>>)
            \o EligibleFrom(n, k + 1)

EligibleArtifacts == EligibleFrom(1, 1)

\* C12 as stated: the returned list is the list of eligible artifacts in node
\* order and then artifact order, each with node, name and path as declared.
C12_EligiblePreserved ==
    fpc = "returned" =>
        artifacts_list = [i \in 1..Len(EligibleArtifacts) |->
                             <<EligibleArtifacts[i].node, EligibleArtifacts[i].a.name,
                               DeclaredPath(EligibleArtifacts[i].a)>>]

\* C12: the returned list is the list of eligible artifacts in node order and
\* then artifact order, each once with its node and name, and with its declared
\* path unless it bears the log-artifact name, whose path is the log file name.
C12_EligibleInOrder ==
    fpc = "returned" =>
        artifacts_list = [i \in 1..Len(EligibleArtifacts) |->
                             <<EligibleArtifacts[i].node, EligibleArtifacts[i].a.name,
                               IF EligibleArtifacts[i].a.name = <<"main-logs">>
                               THEN <<"main.log">>
                               ELSE DeclaredPath(EligibleArtifacts[i].a)>>]

\* a list was returned for a run with artifacts kept and artifacts excluded for
\* each of the three reasons
C12_Witness ==
    /\ fpc = "returned"
    /\ Len(artifacts_list) >= 3
    /\ \E n \in 1..Len(wfl.nodes) : \E k \in 1..Len(wfl.nodes[n].artifacts) :
          ~Contains(RunName, wfl.nodes[n].artifacts[k].key)
    /\ \E n \in 1..Len(wfl.nodes) : \E k \in 1..Len(wfl.nodes[n].artifacts) :
          wfl.nodes[n].artifacts[k].deleted = "true"
    /\ \E n \in 1..Len(wfl.nodes) : \E k \in 1..Len(wfl.nodes[n].artifacts) :
          wfl.nodes[n].artifacts[k].artifactGC = "OnWorkflowCompletion"

\* ---------------------------------------------------------------- C13
\* C13: every entry emitted for the log-artifact name has the log file name as
\* its path, and every eligible artifact of that name is emitted so, whether it
\* declares a path or not.
C13_LogPathFixed ==
    /\ \A i \in 1..Len(artifacts_list) :
          artifacts_list[i][2] = <<"main-logs">> => artifacts_list[i][3] = <<"main.log">>
    /\ fpc = "returned" =>
          \A i \in 1..Len(EligibleArtifacts) :
              EligibleArtifacts[i].a.name = <<"main-logs">> =>
                  \E j \in 1..Len(artifacts_list) :
                      artifacts_list[j] =
                          <<EligibleArtifacts[i].node, <<"main-logs">>, <<"main.log">>>>

\* a list was returned for a run with one eligible log artifact that declares
\* another path and one that declares none
C13_Witness ==
    /\ fpc = "returned"
    /\ \E i, j \in 1..Len(EligibleArtifacts) :
          /\ EligibleArtifacts[i].a = Logs
          /\ EligibleArtifacts[j].a = LogsWithPath

\* ================================== reconstruct_workflow_from_workflowinfo
TemplateRef == "workflowTemplateRef"

SpecKeys == {"entrypoint", "templates", "arguments", TemplateRef}

\* a dict over some of the keys; its values tell which dict they come from
DictsOf(origin) == UNION {[ks -> {origin}] : ks \in SUBSET SpecKeys}

\* the run documents: wfl["spec"] and wfl["status"]["storedWorkflowTemplateSpec"]
ReconDocs == {[spec |-> r, stored |-> t] : r \in DictsOf("run"), t \in DictsOf("stored")}

\* a copy loop that keeps every key of the dict
CopiedKeysAll(d) == DOMAIN d

\* lines 82-85, 88-92: the keys a copy loop takes from a dict
CopiedKeys(d) == DOMAIN d \ {TemplateRef}

\* spec[key] = value for every copied key of d
CopyInto(sp, d) ==
    [k \in DOMAIN sp \cup CopiedKeys(d) |-> IF k \in CopiedKeys(d) THEN d[k] ELSE sp[k]]

ReconInit ==
    /\ SagaIdle
    /\ CrawlIdle
    /\ wfl \in ReconDocs
    /\ fpc = "template"
    /\ node_name = 1
    /\ artifact = 1
    /\ artifacts_list = <<>>
    /\ spec = <<>>
    /\ start_time = 0
    /\ end_time = 0
    /\ action_properties = <<>>

\* lines 78-85: the stored template's items, if the run refers to a template
ReconCopyTemplate ==
    /\ fpc = "template"
    /\ spec' = IF TemplateRef \in DOMAIN wfl.spec THEN CopyInto(spec, wfl.stored) ELSE spec
    /\ fpc' = "run"
    /\ UNCHANGED <<builderVars, crawlVars, wfl, node_name, artifact, artifacts_list,
                   start_time, end_time,
                   action_properties>>

\* lines 87-92: the run's own items
ReconCopyRun ==
    /\ fpc = "run"
    /\ spec' = CopyInto(spec, wfl.spec)
    /\ fpc' = "built"
    /\ UNCHANGED <<builderVars, crawlVars, wfl, node_name, artifact, artifacts_list,
                   start_time, end_time,
                   action_properties>>

\* lines 94-100
ReconReturn ==
    /\ fpc = "built"
    /\ fpc' = "returned"
    /\ UNCHANGED <<builderVars, crawlVars, wfl, node_name, artifact, artifacts_list, spec,
                   start_time, end_time,
                   action_properties>>

ReconNext ==
    \/ ReconCopyTemplate
    \/ ReconCopyRun
    \/ ReconReturn

ReconSpec == ReconInit /\ [][ReconNext]_vars

\* ---------------------------------------------------------------- C14
\* the merge of template t and run spec r: the keys of both without the
\* template reference, the run's value where the run has the key
MergedSpec(t, r) ==
    [k \in (DOMAIN t \cup DOMAIN r) \ {TemplateRef} |-> IF k \in DOMAIN r THEN r[k] ELSE t[k]]

\* C14 as stated: for every stored template spec and run spec the output spec
\* is their merge.
C14_MergedForEveryRun ==
    fpc = "returned" => spec = MergedSpec(wfl.stored, wfl.spec)

\* C14: the output spec never has the template-reference key; for a run spec
\* that has the template-reference key it is the merge of stored template and
\* run spec, for a run spec without it the stored template is left out and the
\* output spec is the run spec.
C14_MergedWhenReferenced ==
    /\ TemplateRef \notin DOMAIN spec
    /\ fpc = "returned" =>
          spec = IF TemplateRef \in DOMAIN wfl.spec
                 THEN MergedSpec(wfl.stored, wfl.spec)
                 ELSE MergedSpec(<<>>, wfl.spec)

\* a spec was returned for a run that refers to a template, the template having
\* a key of its own, a key the run has too, and the reference key
C14_Witness ==
    /\ fpc = "returned"
    /\ TemplateRef \in DOMAIN wfl.spec
    /\ TemplateRef \in DOMAIN wfl.stored
    /\ \E k \in DOMAIN wfl.stored : k \notin DOMAIN wfl.spec /\ k # TemplateRef
    /\ \E k \in DOMAIN wfl.stored : k \in DOMAIN wfl.spec /\ k # TemplateRef
    /\ \E k \in DOMAIN wfl.spec : k \notin DOMAIN wfl.stored

\* ---------------------------------------------------------------- C15
\* the items whose processing is over: all but the last while the Builder runs,
\* all once it has returned or raised
ProcessedItems ==
    {i \in 1..Len(items) : i < Len(items) \/ pc \in {"done", "raised"}}

\* C15: once the processing of an item is over, its stream is exhausted or
\* closed, its temporary file is closed and no handle opened on the temporary
\* file is still open.
C15_ItemResourcesClosed ==
    \A i \in ProcessedItems :
        /\ items[i].stream # "open"
        /\ items[i].tmp_file = "closed"
        /\ items[i].upload # "open"

\* ---------------------------------------------------------------- C16
\* the FileObjects and Datasets created in the run, but for the root Dataset
CreatedMembers ==
    {calls[j].id : j \in CreatesOf("FileObject") \cup CreatesOf("Dataset")} \ {dataset}

BackpatchCalls(op, id) ==
    {j \in 1..Len(calls) : /\ calls[j].op = op
                           /\ calls[j].id = id
                           /\ calls[j].ok
                           /\ calls[j].at \in {"backpatch", "bp_update"}}

\* C16: after a successful run every FileObject and Dataset created in the run
\* other than the root Dataset, absorbed files too, was read and written back
\* during back-patching and declares the root Dataset as the dataset it is
\* part of (none of them declared one before).
C16_EveryMemberBackpatched ==
    pc = "done" =>
        \A id \in CreatedMembers :
            /\ BackpatchCalls("read", id) # {}
            /\ BackpatchCalls("update", id) # {}
            /\ repo[id].isPartOf = <<dataset>>

\* ---------------------------------------------------------------- C17
\* the nested datasets that hold file id
GroupsOf(id) ==
    {k \in 1..Len(nested_datasets_items) : id \in Range(nested_datasets_items[k].items)}

\* C17: after a successful run in which a created file's path contains the
\* marker, every created file whose path contains the marker is in exactly one
\* nested Dataset, the one named by the two segments that follow the marker,
\* and is not in the top-level set; every other created file is in that set.
C17_MarkerFilesGrouped ==
    (pc = "done" /\ IsModGP(created_files)) =>
        \A i \in 1..Len(created_files) :
            LET f == created_files[i]
            IN IF Contains(Marker, f.path)
               THEN /\ Cardinality(GroupsOf(f.id)) = 1
                    /\ \A k \in GroupsOf(f.id) :
                          \E pair \in CategoryPairs(f.path) :
                              nested_datasets_items[k].name = pair[1] \o <<" ">> \o pair[2]
                    /\ f.id \notin RegistryIds(created_ids)
               ELSE f.id \in RegistryIds(created_ids)

\* ---------------------------------------------------------------- C18
\* C18: an item is skipped only for a positive maximum, after its stream was
\* staged; no FileObject is ever created for it; and the step that skips it
\* issues no repository call, leaves both registries as they are, raises
\* nothing and hands control back to the loop over the crawler's items.
C18_SizeSkipContinues ==
    [][/\ \A i \in 1..Len(items') :
              items'[i].skipped =>
                  /\ items'[i].file = 0
                  /\ items'[i].stream = "read"
                  /\ file_max_size > 0
       /\ (pc = "stage" /\ items'[Len(items')].skipped) =>
              /\ pc' = "files"
              /\ UNCHANGED <<created_ids, created_files, calls, repo, err, raised>>
      ]_vars

\* a run has returned the root Dataset after its first item was skipped for its
\* size and its second item became a FileObject
C18_Witness ==
    /\ pc = "done"
    /\ dataset # 0
    /\ Len(items) = 2
    /\ items[1].skipped
    /\ items[2].file # 0
    /\ IdsOfKind(created_ids, {"FileObject"}) # <<>> \/ nested_datasets_items # <<>>

\* ============================================ the action window (209-226)
\* a timestamp text: the instant t it names and the way it is written, "iso"
\* with every field zero-padded as strftime writes it, "short" with a field
\* that is not padded (strptime reads both); NoTime is None or a missing key
TimeText(t, form) == [t |-> t, form |-> form]

NoTime == TimeText(0, "none")

\* lines 211, 214, 219: datetime.strptime(text, date_format)
ParseTime(text) == text.t

\* lines 225, 226: time.strftime(date_format)
FormatTime(t) == TimeText(t, "iso")

StartTexts == {TimeText(1, "iso"), TimeText(1, "short")}

FinishTexts == {NoTime, TimeText(2, "iso"), TimeText(3, "iso"), TimeText(3, "short")}

\* wfl["status"]: startedAt, finishedAt and the finishedAt of every node, in the
\* iteration order of the dict of nodes
WindowDocs ==
    {[startedAt |-> s, finishedAt |-> f, nodes |-> ns] :
        s \in StartTexts, f \in FinishTexts,
        ns \in UNION {[1..n -> FinishTexts] : n \in 0..MaxNodes}}

\* an end time that is the finish time of the node read last
LaterEndLast(end, node_end) == node_end

\* lines 220-221: if end_time is None or node_end_time > end_time
LaterEnd(end, node_end) == IF end = 0 \/ node_end > end THEN node_end ELSE end

WindowInit ==
    /\ SagaIdle
    /\ CrawlIdle
    /\ wfl \in WindowDocs
    /\ fpc = "window"
    /\ node_name = 1
    /\ artifact = 1
    /\ artifacts_list = <<>>
    /\ spec = <<>>
    /\ start_time = 0
    /\ end_time = 0
    /\ action_properties = <<>>

\* lines 211-214: the start time, and the end time the run records
WindowOfRun ==
    /\ fpc = "window"
    /\ start_time' = ParseTime(wfl.startedAt)
    /\ IF wfl.finishedAt # NoTime
       THEN end_time' = ParseTime(wfl.finishedAt) /\ fpc' = "format"
       ELSE end_time' = 0 /\ fpc' = "nodes"
    /\ UNCHANGED <<builderVars, crawlVars, wfl, node_name, artifact, artifacts_list, spec,
                   action_properties>>

\* lines 216-221: one node of the run
WindowNode ==
    /\ fpc = "nodes"
    /\ node_name <= Len(wfl.nodes)
    /\ end_time' = IF wfl.nodes[node_name] # NoTime
                   THEN LaterEnd(end_time, ParseTime(wfl.nodes[node_name]))
                   ELSE end_time
    /\ node_name' = node_name + 1
    /\ UNCHANGED <<builderVars, crawlVars, wfl, fpc, artifact, artifacts_list, spec,
                   start_time, action_properties>>

\* the loop of line 216 ends
WindowNodesDone ==
    /\ fpc = "nodes"
    /\ node_name > Len(wfl.nodes)
    /\ fpc' = "format"
    /\ UNCHANGED <<builderVars, crawlVars, wfl, node_name, artifact, artifacts_list, spec,
                   start_time, end_time, action_properties>>

\* lines 223-226: both times are written into the properties of the action;
\* end_time.strftime raises when end_time is still None
WindowFormat ==
    /\ fpc = "format"
    /\ IF end_time = 0
       THEN fpc' = "raised" /\ UNCHANGED action_properties
       ELSE /\ action_properties' = [startTime |-> FormatTime(start_time),
                                     endTime |-> FormatTime(end_time)]
            /\ fpc' = "returned"
    /\ UNCHANGED <<builderVars, crawlVars, wfl, node_name, artifact, artifacts_list, spec,
                   start_time, end_time>>

WindowNext ==
    \/ WindowOfRun
    \/ WindowNode
    \/ WindowNodesDone
    \/ WindowFormat

WindowSpec == WindowInit /\ [][WindowNext]_vars

\* ---------------------------------------------------------------- C19
\* the instants at which nodes of the run finished
NodeFinishes == {wfl.nodes[i].t : i \in {j \in 1..Len(wfl.nodes) : wfl.nodes[j] # NoTime}}

\* C19: the end time of the CreateAction names the instant of the run's finish
\* timestamp when the run has one, and otherwise the latest instant at which a
\* node finished; its start time names the instant of the run's start timestamp.
C19_ActionWindow ==
    fpc = "returned" =>
        /\ action_properties.startTime.t = wfl.startedAt.t
        /\ IF wfl.finishedAt # NoTime
           THEN action_properties.endTime.t = wfl.finishedAt.t
           ELSE /\ action_properties.endTime.t \in NodeFinishes
                /\ \A t \in NodeFinishes : t <= action_properties.endTime.t

\* the window of a run without finish timestamp was taken from its nodes, the
\* latest of which is not the last one
C19_Witness ==
    /\ fpc = "returned"
    /\ wfl.finishedAt = NoTime
    /\ Len(wfl.nodes) = 2
    /\ wfl.nodes[1].t > wfl.nodes[2].t
    /\ wfl.nodes[2] # NoTime

\* ---------------------------------------------------------------- C20
\* the ids of the Persons created, in the order of their creation, which is the
\* order of the annotations
PersonIds ==
    LET creates == SelectSeq(calls, LAMBDA c : c.op = "create" /\ c.ok /\ c.kind = "Person")
    IN [k \in 1..Len(creates) |-> creates[k].id]

\* the Person created for submitter index n
PersonOf(n) == PersonIds[CHOOSE k \in 1..Len(annotations) : annotations[k] = n]

\* the lowest submitter index of the annotations
FirstIndex == CHOOSE n \in Range(annotations) : \A m \in Range(annotations) : n <= m

\* C20 as stated: while the CreateAction exists, one Person was created per
\* matched index; its agent is the Person of the first matched index when a
\* Person was created, and it has no agent only when none was.
C20_AgentIsFirstPerson ==
    action \in DOMAIN repo =>
        /\ Len(PersonIds) = Len(annotations)
        /\ IF annotations # <<>>
           THEN repo[action].agent = PersonOf(FirstIndex)
           ELSE repo[action].agent = 0

\* C20: while the CreateAction exists, one Person was created per matched
\* index; its agent is the Person of index 1 when index 1 was matched, and it
\* has no agent when index 1 was not matched, whether or not a Person was
\* created.
C20_AgentIsPersonOne ==
    action \in DOMAIN repo =>
        /\ Len(PersonIds) = Len(annotations)
        /\ IF 1 \in Range(annotations)
           THEN repo[action].agent = PersonOf(1)
           ELSE repo[action].agent = 0

\* a run has returned with two Persons created, the Person of index 1, created
\* second, being the agent of the CreateAction
C20_Witness ==
    /\ pc = "done"
    /\ annotations = <<2, 1>>
    /\ Len(PersonIds) = 2
    /\ repo[action].agent = PersonIds[2]

\* ---------------------------------------------------------------- C21
\* the place of a create call in the order of the steps
StepRank(c) ==
    CASE c.kind = "Person" -> 1
      [] c.kind = "FileObject" -> 2
      [] c.kind = "Dataset" /\ c.at = "nested" -> 3
      [] c.kind \in {"FormalParameter", "PropertyValue"} -> 4
      [] c.kind = "ComputerLanguage" -> 5
      [] c.kind = "Workflow" -> 6
      [] c.kind = "CreateAction" -> 7
      [] c.kind = "Dataset" /\ c.at = "root" -> 8
      [] OTHER -> 0

\* C21: every create call follows a successful create call of the same or an
\* earlier step (of an earlier step from ComputerLanguage on), a PropertyValue
\* create directly follows its FormalParameter create, and once a step has
\* failed (a call raised, or the handler was entered) only delete calls follow.
C21_CreatesInStepOrder ==
    /\ \A j \in 1..Len(calls) :
          /\ calls[j].op = "create" => StepRank(calls[j]) > 0
          /\ (calls[j].op = "create" /\ calls[j].kind = "PropertyValue") => j > 1
          /\ calls[j].at = "rollback" <=> calls[j].op = "delete"
    /\ \A j \in 2..Len(calls) :
          LET a == calls[j - 1]
              b == calls[j]
          IN /\ b.op = "create" =>
                  /\ a.op = "create" /\ a.ok
                  /\ StepRank(a) <= StepRank(b)
                  /\ StepRank(b) >= 5 => StepRank(a) < StepRank(b)
                  /\ b.kind = "PropertyValue" => a.kind = "FormalParameter"
             /\ (~a.ok \/ a.op = "delete") => b.op = "delete"
    /\ err # <<>> => pc \in {"rollback", "raised"}
    /\ err = <<>> => DeleteCalls = {}

\* the create of the CreateAction failed after a Person, a FileObject, a nested
\* Dataset, a FormalParameter and its PropertyValue, the ComputerLanguage and
\* the Workflow were created, and every one of them was deleted
C21_Witness ==
    /\ pc = "raised"
    /\ err = <<"create", "CreateAction">>
    /\ \A k \in {"Person", "FileObject", "Dataset", "FormalParameter", "PropertyValue",
                 "ComputerLanguage", "Workflow"} : CreatesOf(k) # {}
    /\ DeleteCalls # {}
    /\ NoDeleteFailed

\* ---------------------------------------------------------------- C22
\* the requests of one purpose, in the order they were issued
RequestsFor(purpose) == SelectSeq(requests, LAMBDA r : r.purpose = purpose)

ArtifactNamed(name) == CHOOSE a \in Artifacts : a.name = <<name>>

\* the artifact lists handed to artifact_reader: none, a grouped file and a
\* directory, a file and a URL whose header names no file
PipeArtifactLists ==
    { <<>>,
      <<ArtifactNamed("species"), ArtifactNamed("dir")>>,
      <<ArtifactNamed("out"), ArtifactNamed("inline")>> }

\* the Builder is called with the generator artifact_reader returns, none of
\* whose code has run yet
PipeInit ==
    /\ DocIdle
    /\ BuilderInit
    /\ annotations = <<2, 1>>
    /\ wfl_parameters = <<[value |-> TRUE]>>
    /\ artifact_list \in PipeArtifactLists
    /\ artIdx = 1
    /\ stack = <<>>
    /\ requests = <<>>
    /\ yielded = <<>>
    /\ crawl = "running"

\* a generator that runs whatever the Builder is doing
GeneratorEager == TRUE

\* cordra.py line 57: the for statement asks the generator for its next item;
\* the generator runs from there to its next yield, its end or its exception
GeneratorResumed == pc = "files" /\ Len(yielded) = Len(items)

\* cordra.py line 57: the for statement receives what the generator yielded
PipeFetchItem ==
    /\ pc = "files"
    /\ Len(yielded) > Len(items)
    /\ items' = Append(items, NewItem(yielded[Len(items) + 1].path))
    /\ pc' = "stage"
    /\ UNCHANGED <<cfgVars, regVars, objVars, loopVars, excVars, argVars, authorIdx, paramIdx,
                   repoVars, calls>>

\* cordra.py line 57: the exception of the generator surfaces in the Builder
PipeFetchFails == crawl = "raised" /\ FetchFails

\* cordra.py line 57: the generator is exhausted, the for loop ends
PipeFilesDone == crawl = "done" /\ FilesDone

PipeNext ==
    \/ CreatePerson
    \/ AuthorsDone
    \/ GeneratorResumed /\ NextArtifact
    \/ GeneratorResumed /\ CrawlDone
    \/ GeneratorResumed /\ Probe
    \/ GeneratorResumed /\ DownloadNoFileName
    \/ GeneratorResumed /\ Download
    \/ GeneratorResumed /\ ListDirectory
    \/ GeneratorResumed /\ FollowLink
    \/ GeneratorResumed /\ LinksDone
    \/ PipeFetchItem
    \/ PipeFetchFails
    \/ StageSkipContent
    \/ StageDownload
    \/ StageDownloadFails
    \/ PostFileObject
    \/ PipeFilesDone
    \/ CreateNestedDataset
    \/ CreateFormalParameter
    \/ CreatePropertyValue
    \/ ParametersDone
    \/ CreateComputerLanguage
    \/ CreateWorkflow
    \/ CreateAction
    \/ CreateRootDataset
    \/ BackpatchRead
    \/ BackpatchUpdate
    \/ TouchRoot
    \/ RollbackDelete
    \/ Reraise

PipeSpec == PipeInit /\ [][PipeNext]_vars

\* ---------------------------------------------------------------- C23
\* the streams the crawler has handed out that are neither exhausted nor closed
OpenStreams == {i \in 1..Len(items) : items[i].stream = "open"}

\* the Builder is done with an item: its stream is exhausted or closed and its
\* FileObject is created or it was skipped
ItemFinished(i) ==
    /\ items[i].stream # "open"
    /\ items[i].file # 0 \/ items[i].skipped

\* C23: at most one stream is open at any time; no request is made while the
\* Authors step runs; and every request of the crawler is made while the
\* Builder waits at the loop over the crawler's items, every item yielded so
\* far being finished.
C23_OneStreamAtATime ==
    /\ [](/\ Cardinality(OpenStreams) + (Len(yielded) - Len(items)) <= 1
          /\ pc = "authors" => requests = <<>>)
    /\ [][requests' # requests =>
              /\ pc = "files" /\ pc' = "files"
              /\ Len(yielded) = Len(items)
              /\ \A i \in 1..Len(items) : ItemFinished(i)]_vars

\* a run has returned after the crawler yielded several items, each requested
\* after the item before was posted
C23_Witness ==
    /\ pc = "done"
    /\ Len(items) >= 2
    /\ \A i \in 1..Len(items) : ItemFinished(i)
    /\ Len(RequestsFor("download")) = Len(items)

====
